---- MODULE Spec2Model ----
(***************************************************************************)
(* Model of TrackMaps.ipynb (Python 2 kernel): make_segments, colorline,   *)
(* the figures of SingleTrackMap and saveTrackMap of the track map cells,  *)
(* and jointProb, attributable,                                            *)
(* confidence, plot_results and the sliders that call it of the            *)
(* attribution cells, with their module-level variables.  The initial      *)
(* state draws the function and its arguments from bounded sets; the       *)
(* actions evaluate the call and leave the returned value, the locals and  *)
(* the source lines executed in the state.                                 *)
(*                                                                         *)
(* Python numbers are records [t, n, d]: t = "int" (n, d = 1), t = "float" *)
(* (the rational n/d in lowest terms) or t = "float64" (a NumPy scalar,    *)
(* the same rational).  The other float kinds are "inf", "-inf", "nan" and *)
(* "pos" (a finite positive float whose magnitude is beyond the exact      *)
(* range of the model).  "ZeroDivisionError" is a raised exception, "None" *)
(* the value None.                                                         *)
(***************************************************************************)
EXTENDS Integers, Sequences, FiniteSets, TLC

VARIABLES fn, args, pc, loc, ret, executed, glob, cells, first, figures,
          files

\* fn, args, pc, loc, ret, executed: the call in progress or last ended.
\* glob: the module-level variables mu, beta, T1, T2 and tau.
\* cells: the values the module-level cells last assigned to them.
\* first: the first call that ended in the session, with its result.
\* figures: the SingleTrackMap figures the session has created.
\* files: the figure written to each file name, if any.
vars == <<fn, args, pc, loc, ret, executed, glob, cells, first, figures,
          files>>

(***************************************************************************)
(* Bounds of the model.                                                    *)
(***************************************************************************)
MaxCount == 3
MaxIntTau == 2
MaxJointCount == 2
MaxPeriod == 2
MaxSlide == 3
MaxPoints == 3
MaxCoord == 1
MaxTrack == 2
MaxFigures == 2
MaxPlots == 3

(***************************************************************************)
(* Python 2 numbers.                                                       *)
(***************************************************************************)
Abs(i) == IF i < 0 THEN -i ELSE i

RECURSIVE Gcd(_, _)
Gcd(a, b) == IF b = 0 THEN a ELSE Gcd(b, a % b)

PyInt(i) == [t |-> "int", n |-> i, d |-> 1]

PyFloat(n, d) ==
    LET g == Gcd(Abs(n), d)
    IN  [t |-> "float", n |-> n \div g, d |-> d \div g]

PyNone == [t |-> "None", n |-> 0, d |-> 1]
PyInf == [t |-> "inf", n |-> 0, d |-> 1]
PyNegInf == [t |-> "-inf", n |-> 0, d |-> 1]
PyNaN == [t |-> "nan", n |-> 0, d |-> 1]
PyPos == [t |-> "pos", n |-> 0, d |-> 1]
ZeroDivisionError == [t |-> "ZeroDivisionError", n |-> 0, d |-> 1]

IsExact(v) == v.t \in {"int", "float", "float64"}
IsRaised(v) == v.t = "ZeroDivisionError"
IsZero(v) == IsExact(v) /\ v.n = 0

\* The mathematical value of an exact number, as a float record.
AsFloat(v) == PyFloat(v.n, v.d)

\* asarray(v).flat[0]: a Python float as the NumPy scalar np.float64.  (An
\* int becomes np.int64, which adds, multiplies and floor-divides as the
\* Python int does and is left an "int".)
NpScalar(v) == IF v.t = "float" THEN [v EXCEPT !.t = "float64"] ELSE v

\* A NumPy scalar is an operand: the operation is NumPy's.
IsNumPy(a, b) == a.t = "float64" \/ b.t = "float64"

\* a == b, a < b and a <= b of Python on exact numbers (by value).
PyEq(a, b) == a.n * b.d = b.n * a.d
PyLt(a, b) ==
    LET g == Gcd(a.d, b.d) IN a.n * (b.d \div g) < b.n * (a.d \div g)
PyLe(a, b) ==
    LET g == Gcd(a.d, b.d) IN a.n * (b.d \div g) <= b.n * (a.d \div g)

\* The result type of a binary operation: np.float64 when an operand is,
\* int only when both operands are.
Exact(a, b, n, d) ==
    IF IsNumPy(a, b) THEN NpScalar(PyFloat(n, d))
    ELSE IF a.t = "int" /\ b.t = "int" /\ d = 1 THEN PyInt(n)
    ELSE PyFloat(n, d)

\* a + b
PyAdd(a, b) ==
    IF IsRaised(a) THEN a
    ELSE IF IsRaised(b) THEN b
    ELSE IF a.t = "nan" \/ b.t = "nan" THEN PyNaN
    ELSE IF a.t = "inf" \/ b.t = "inf" THEN PyInf
    ELSE IF a.t = "pos" \/ b.t = "pos" THEN PyPos
    ELSE LET g == Gcd(a.d, b.d)
         IN  Exact(a, b, a.n * (b.d \div g) + b.n * (a.d \div g),
                   (a.d \div g) * b.d)

\* a - b, for an exact a
PySub(a, b) ==
    IF IsRaised(a) THEN a
    ELSE IF IsRaised(b) THEN b
    ELSE IF b.t = "nan" THEN PyNaN
    ELSE IF b.t = "inf" THEN PyNegInf
    ELSE IF b.t = "-inf" THEN PyInf
    ELSE Exact(a, b, a.n * b.d - b.n * a.d, a.d * b.d)

\* a * b, on non-negative operands when one is not exact
PyMul(a, b) ==
    IF IsRaised(a) THEN a
    ELSE IF IsRaised(b) THEN b
    ELSE IF a.t = "nan" \/ b.t = "nan" THEN PyNaN
    ELSE IF a.t = "inf" \/ b.t = "inf"
         THEN IF IsZero(a) \/ IsZero(b) THEN PyNaN ELSE PyInf
    ELSE IF a.t = "pos" \/ b.t = "pos"
         THEN IF IsZero(a) \/ IsZero(b) THEN PyFloat(0, 1) ELSE PyPos
    ELSE LET g1 == Gcd(Abs(a.n), b.d)
             g2 == Gcd(Abs(b.n), a.d)
         IN  Exact(a, b, (a.n \div g1) * (b.n \div g2),
                   (a.d \div g2) * (b.d \div g1))

\* The Python 2 operator a / b: floor division when both operands are int,
\* true division otherwise.  A zero divisor raises on Python scalars; when
\* an operand is an np.float64 it gives inf (nan for 0/0) and a warning.
\* Operands are non-negative when the divisor is zero.
PyDivFloor(a, b) ==
    IF IsRaised(a) THEN a
    ELSE IF IsRaised(b) THEN b
    ELSE IF IsZero(b)
         THEN IF ~IsNumPy(a, b) THEN ZeroDivisionError
              ELSE IF IsZero(a) \/ a.t = "nan" THEN PyNaN
              ELSE PyInf
    ELSE IF a.t = "nan" \/ b.t = "nan" THEN PyNaN
    ELSE IF b.t = "inf"
         THEN IF a.t = "inf" THEN PyNaN ELSE PyFloat(0, 1)
    ELSE IF a.t = "inf" THEN PyInf
    ELSE IF a.t = "pos" \/ b.t = "pos"
         THEN IF IsZero(a) THEN PyFloat(0, 1) ELSE PyPos
    ELSE IF a.t = "int" /\ b.t = "int"
         THEN PyInt(a.n \div b.n)
    ELSE IF b.n > 0 THEN PyFloat(a.n * b.d, a.d * b.n)
    ELSE PyFloat(-(a.n * b.d), a.d * (-b.n))

\* float(v) of an int; a float is itself.
Promote(v) == IF v.t = "int" THEN AsFloat(v) ELSE v

\* True division whatever the operand types.
PyDivTrue(a, b) ==
    IF IsExact(a) /\ IsExact(b) THEN PyDivFloor(Promote(a), Promote(b))
    ELSE PyDivFloor(a, b)

PyDiv(a, b) == PyDivFloor(a, b)

\* a / b on NumPy floats: true division, and a zero divisor gives inf (nan
\* for 0/0) instead of raising.  Operands are non-negative.
NpDiv(a, b) ==
    IF IsZero(b)
    THEN IF IsZero(a) \/ a.t = "nan" THEN PyNaN ELSE PyInf
    ELSE PyDivTrue(a, b)

(***************************************************************************)
(* attributable(x, y, tau): return 1. - x / (tau * y)                      *)
(***************************************************************************)
\* tau in the numerator: 1. - x * tau / y
attributable_num(x, y, tau) ==
    PySub(PyFloat(1, 1), PyDiv(PyMul(x, tau), y))

\* A guard on the divisor that returns the sentinel of confidence.
attributable_guarded(x, y, tau) ==
    IF IsZero(PyMul(tau, y)) THEN PyNone
    ELSE PySub(PyFloat(1, 1), PyDiv(x, PyMul(tau, y)))

attributable(x, y, tau) == PySub(PyFloat(1, 1), PyDiv(x, PyMul(tau, y)))

(***************************************************************************)
(* jointProb(x, y, mu, beta, T1, T2).  The factor np.exp(-rate) is kept    *)
(* symbolic: a float of kind "expfloat" is c * exp(-e) for a Python float  *)
(* c and an exact e.                                                       *)
(***************************************************************************)
\* The largest k whose factorial is a finite float (170! < 1.8e308 < 171!).
MaxFactorial == 170

\* Exponents and factorial arguments up to ExactRange are computed exactly.
ExactRange == 2 * (MaxJointCount + 1)

RECURSIVE Fact(_)
Fact(k) == IF k = 0 THEN 1 ELSE k * Fact(k - 1)

\* np.misc.factorial(k) for an int k >= 0: a float, inf on overflow.
factorial(k) ==
    IF k.n > MaxFactorial THEN PyInf
    ELSE IF k.n > ExactRange THEN PyPos
    ELSE PyFloat(Fact(k.n), 1)

RECURSIVE PowExact(_, _)
PowExact(base, k) ==
    IF k = 0 THEN PyFloat(1, 1) ELSE PyMul(PowExact(base, k - 1), base)

\* np.power(base, k) for an exact base >= 0 and an int k >= 0.  Beyond the
\* exact range the power of a base in [1/32, 32] is a finite positive float.
NpPower(base, k) ==
    IF k.n = 0 THEN PyFloat(1, 1)
    ELSE IF IsZero(base) THEN PyFloat(0, 1)
    ELSE IF base.n = base.d THEN PyFloat(1, 1)
    ELSE IF k.n > ExactRange THEN PyPos
    ELSE PowExact(AsFloat(base), k.n)

ExpFloat(c, e) == [t |-> "expfloat", c |-> c, e |-> e]

\* mu * (T1 + beta * T2)
jointProb_rate(mu, beta, T1, T2) == PyMul(mu, PyAdd(T1, PyMul(beta, T2)))

\* tau = T1/T2
jointProb_tau(T1, T2) == PyDiv(T1, T2)

\* totalobs = np.power(rate, x + y) * np.exp(-rate) / xyfac, as the
\* coefficient of exp(-rate)
jointProb_totalobs(x, y, rate, xyfac) ==
    NpDiv(NpPower(rate, PyAdd(x, y)), xyfac)

\* condprob = (xyfac / (xfac * yfac)) * np.power(tau/(tau + beta), x) *
\*            np.power(beta/(tau + beta), y)
jointProb_condprob(x, y, tau, beta, xyfac, xfac, yfac) ==
    PyMul(PyMul(NpDiv(xyfac, PyMul(xfac, yfac)),
                NpPower(PyDiv(tau, PyAdd(tau, beta)), x)),
          NpPower(PyDiv(beta, PyAdd(tau, beta)), y))

\* The locals and the returned value pr of jointProb.
jointProb(x, y, mu, beta, T1, T2) ==
    LET tau == jointProb_tau(T1, T2)
        xyfac == factorial(PyAdd(x, y))
        xfac == factorial(x)
        yfac == factorial(y)
        rate == jointProb_rate(mu, beta, T1, T2)
        totalobs == jointProb_totalobs(x, y, rate, xyfac)
        condprob == jointProb_condprob(x, y, tau, beta, xyfac, xfac, yfac)
    IN  [tau |-> tau, xyfac |-> xyfac, xfac |-> xfac, yfac |-> yfac,
         totalobs |-> ExpFloat(totalobs, rate), condprob |-> condprob,
         pr |-> ExpFloat(PyMul(totalobs, condprob), rate)]

(***************************************************************************)
(* Floats of confidence: fixed point, Scale units to 1, every operation    *)
(* rounded to a multiple of 1/Scale (towards zero) and quotients clipped   *)
(* at the magnitude FxBig.                                                 *)
(***************************************************************************)
Half == 10 * 10 * 10
Scale == Half * Half

Sign(i) == IF i < 0 THEN -1 ELSE 1

\* The fixed-point value of an exact Python number.
FxOf(v) == Sign(v.n) * ((Abs(v.n) * Scale) \div v.d)

FxMulAbs(a, b) ==
    LET ah == a \div Half
        al == a % Half
        bh == b \div Half
        bl == b % Half
    IN  ah * bh + ((ah * bl + al * bh) + ((al * bl) \div Half)) \div Half

FxMul(a, b) == Sign(a) * Sign(b) * FxMulAbs(Abs(a), Abs(b))

\* <<q, r>> with a * m = q * b + r and 0 <= r < b, for a, m >= 0 and b > 0,
\* by doubling, so that no intermediate value exceeds the quotient or 2 * b.
RECURSIVE MulDivMod(_, _, _)
MulDivMod(a, m, b) ==
    IF m = 0 THEN <<0, 0>>
    ELSE LET h == MulDivMod(a, m \div 2, b)
             c2 == IF h[2] >= b - h[2] THEN 1 ELSE 0
             r2 == IF c2 = 1 THEN h[2] - (b - h[2]) ELSE h[2] + h[2]
             ra == a % b
             c3 == IF r2 >= b - ra THEN 1 ELSE 0
             r3 == IF c3 = 1 THEN r2 - (b - ra) ELSE r2 + ra
         IN  IF m % 2 = 0
             THEN <<2 * h[1] + c2, r2>>
             ELSE <<2 * h[1] + c2 + (a \div b) + c3, r3>>

FxDivAbs(a, b) == MulDivMod(a, Scale, b)[1]

\* The largest magnitude of the fixed-point floats: 32-bit integers hold
\* values below 2147.48.
FxBig == 2147 * Scale

\* a / b for b # 0.  A quotient of magnitude FxBig or more, a finite float
\* all the same, is kept as FxBig with its sign.
FxDiv(a, b) ==
    IF Abs(a) \div Abs(b) >= FxBig \div Scale
    THEN Sign(a) * Sign(b) * FxBig
    ELSE Sign(a) * Sign(b) * FxDivAbs(Abs(a), Abs(b))

\* base ** k for an integer k >= 0, by repeated squaring
RECURSIVE FxPowInt(_, _)
FxPowInt(base, k) ==
    IF k = 0 THEN Scale
    ELSE LET h == FxPowInt(base, k \div 2)
         IN  IF k % 2 = 0 THEN FxMul(h, h) ELSE FxMul(FxMul(h, h), base)

\* The largest r in lo..hi with FxPowInt(r, k) <= v (bisection), k >= 1.
RECURSIVE FxRootIn(_, _, _, _)
FxRootIn(v, k, lo, hi) ==
    IF lo >= hi THEN lo
    ELSE LET mid == (lo + hi + 1) \div 2
         IN  IF FxPowInt(mid, k) <= v
             THEN FxRootIn(v, k, mid, hi)
             ELSE FxRootIn(v, k, lo, mid - 1)

\* np.sqrt(v) for v >= 0; the root of a 32-bit v is below 46.4
FxSqrt(v) ==
    FxRootIn(v, 2, 0, IF v <= Scale THEN Scale
                      ELSE IF v < 46 * Scale THEN v
                      ELSE 46 * Scale)

\* np.power(base, 1./n) for 0 < base < 1 and an exact n = n.n/n.d > 0:
\* the n.n-th root of base ** n.d.
FxPowInv(base, n) == FxRootIn(FxPowInt(base, n.d), n.n, 0, Scale)

\* norm.ppf(p): the standard normal quantile, tabulated to 1/Scale for the
\* values alpha/2 of the model.
NormPpf(p) ==
    CASE p = 25000 -> -1959964
      [] p = 50000 -> -1644854
      [] p = 250000 -> -674490

(***************************************************************************)
(* confidence(x, y, alpha, tau), statement by statement.  x, y, tau and    *)
(* alpha are exact Python numbers; n and q are exact (q = x/n is the       *)
(* Python 2 division); the values computed through np.power, norm.ppf and  *)
(* np.sqrt are fixed-point floats.                                         *)
(***************************************************************************)
Tuple(pL, pU) == [t |-> "tuple", pL |-> pL, pU |-> pU]

\* The guard as an identity test (y is 0): a float zero passes it.
confidence_guard_is(y) == IsZero(y) /\ y.t = "int"

\* The guard as a sign test (y < 0).
confidence_guard_lt(y) == IsExact(y) /\ y.n < 0

\* if y == 0:
confidence_guard(y) == IsZero(y)

\* n = x + y
confidence_n(x, y) == PyAdd(x, y)

\* q = x/n
confidence_q(x, n) == PyDiv(x, n)

\* if x == 0:
confidence_zero(x) == IsZero(x)

\* np.power(alpha, 1./n)
confidence_pow(alpha, n) == FxPowInv(FxOf(alpha), n)

\* p_U without the complement: np.power(alpha, 1./n)
confidence_zero_pU_pow(alpha, n) == confidence_pow(alpha, n)

\* p_U = 1 - np.power(alpha, 1./n)
confidence_zero_pU(alpha, n) == Scale - confidence_pow(alpha, n)

\* p_L with the divisor unparenthesised: 1. - (1. - a) / tau * a
confidence_zero_pL_prec(alpha, tau, n) ==
    Scale - FxMul(FxDiv(Scale - confidence_pow(alpha, n), FxOf(tau)),
                  confidence_pow(alpha, n))

\* p_L = 1. - (1. - np.power(alpha, 1./n)) / (tau * np.power(alpha, 1./n))
confidence_zero_pL(alpha, tau, n) ==
    Scale - FxDiv(Scale - confidence_pow(alpha, n),
                  FxMul(FxOf(tau), confidence_pow(alpha, n)))

\* The upper-tail quantile norm.ppf(1 - alpha/2.) = -norm.ppf(alpha/2.)
confidence_z_upper(alpha) == -NormPpf(FxDiv(FxOf(alpha), 2 * Scale))

\* z = norm.ppf(alpha/2.)
confidence_z(alpha) == NormPpf(FxDiv(FxOf(alpha), 2 * Scale))

\* det = np.sqrt(q * (1 - q) + z*z/(4 * n))
confidence_det(q, z, n) ==
    FxSqrt(FxMul(FxOf(q), Scale - FxOf(q))
           + FxDiv(FxMul(z, z), FxOf(PyMul(PyInt(4), n))))

\* a without the continuity term z*z/2: x / (n + z*z)
confidence_a_plain(x, z, n) == FxDiv(FxOf(x), FxOf(n) + FxMul(z, z))

\* a = (x + z*z/2) / (n + z*z)
confidence_a(x, z, n) ==
    FxDiv(FxOf(x) + FxDiv(FxMul(z, z), 2 * Scale), FxOf(n) + FxMul(z, z))

\* b = z*np.sqrt(n) / (n + z*z)
confidence_b(z, n) ==
    FxDiv(FxMul(z, FxSqrt(FxOf(n))), FxOf(n) + FxMul(z, z))

\* L = a - b * det
confidence_L(a, b, det) == a - FxMul(b, det)

\* U = a + b * det
confidence_U(a, b, det) == a + FxMul(b, det)

\* beta_U = tau * (1. - U) / U and beta_L = tau * (1. - L) / L
confidence_beta(tau, bound) == FxDiv(FxMul(FxOf(tau), Scale - bound), bound)

\* p_L = 1. - 1./beta_L and p_U = 1. - 1./beta_U
confidence_p(beta) == Scale - FxDiv(Scale, beta)

\* The value returned by confidence(x, y, alpha, tau): None, a raised
\* ZeroDivisionError or the pair (p_L, p_U).
confidence(x, y, alpha, tau) ==
    IF confidence_guard(y) THEN PyNone
    ELSE LET n == confidence_n(x, y)
             q == confidence_q(x, n)
             z == confidence_z(alpha)
             det == confidence_det(q, z, n)
             a == confidence_a(x, z, n)
             b == confidence_b(z, n)
             L == confidence_L(a, b, det)
             U == confidence_U(a, b, det)
             beta_U == confidence_beta(tau, U)
             beta_L == confidence_beta(tau, L)
         IN  IF IsRaised(q) THEN q
             ELSE IF confidence_zero(x)
                  THEN Tuple(confidence_zero_pL(alpha, tau, n),
                             confidence_zero_pU(alpha, n))
             ELSE Tuple(confidence_p(beta_L), confidence_p(beta_U))

(***************************************************************************)
(* Module-level variables and the scope of names.                          *)
(***************************************************************************)
\* A name no cell has assigned yet.
Unbound == [t |-> "unbound", n |-> 0, d |-> 1]

NoGlobals == [mu |-> Unbound, beta |-> Unbound, T1 |-> Unbound,
              T2 |-> Unbound, tau |-> Unbound]

\* mu = 0.5; beta = 1.5
Cell222(g) == [g EXCEPT !.mu = PyFloat(1, 2), !.beta = PyFloat(3, 2)]

\* T1 = 20; T2 = 10; tau = T1/T2
Cell241(g) ==
    [g EXCEPT !.T1 = PyInt(20), !.T2 = PyInt(10),
              !.tau = PyDiv(PyInt(20), PyInt(10))]

ModuleGlobals == Cell241(Cell222(NoGlobals))

\* jointProb with a declaration 'global tau'.
GlobalDecl_tau(f) == IF f = "jointProb" THEN {"tau"} ELSE {}

\* The names a function declares global: no function has a global
\* statement, so every name it assigns is a local.
GlobalDecl(f) == {}

\* The module-level variables after the assignment name = v in function f.
Assigned(f, g, name, v) ==
    IF name \in GlobalDecl(f) THEN [g EXCEPT ![name] = v] ELSE g

(***************************************************************************)
(* plot_results(x, y) and np.vectorize.                                    *)
(***************************************************************************)
Array(v) == [t |-> "array", v |-> v]

ValueError == [t |-> "ValueError", n |-> 0, d |-> 1]

\* tau = np.array([0.5, 1., 2., 3., 4., 5.])
TauArray == <<PyFloat(1, 2), PyFloat(1, 1), PyFloat(2, 1), PyFloat(3, 1),
              PyFloat(4, 1), PyFloat(5, 1)>>

\* The values of tau with which np.vectorize(f)(.., tau) calls f: without
\* otypes it first calls f on the first element to find the number and
\* the types of the outputs, then once per element.
VectorizeCalls(tau) == <<tau[1]>> \o tau

\* vatt(x, y, tau): the probe on NumPy scalars, then the calls on the
\* Python objects of the object arrays; an exception of a call ends it.
vatt(x, y, tau) ==
    LET probe == attributable(NpScalar(x), NpScalar(y), NpScalar(tau[1]))
        out == [i \in DOMAIN tau |-> attributable(x, y, tau[i])]
    IN  IF IsRaised(probe) THEN probe
        ELSE IF \E i \in DOMAIN out : IsRaised(out[i])
             THEN out[CHOOSE i \in DOMAIN out :
                          /\ IsRaised(out[i])
                          /\ \A j \in 1..(i - 1) : ~IsRaised(out[j])]
        ELSE Array(out)

\* vconf(x, y, alpha, tau): a pair of arrays when the probe returns a pair,
\* one array of the returned objects otherwise.
vconf(x, y, alpha, tau) ==
    LET probe == confidence(NpScalar(x), NpScalar(y), NpScalar(alpha),
                            NpScalar(tau[1]))
        out == [i \in DOMAIN tau |-> confidence(x, y, alpha, tau[i])]
    IN  IF IsRaised(probe) THEN probe
        ELSE IF \E i \in DOMAIN out : IsRaised(out[i])
             THEN ZeroDivisionError
        ELSE IF probe.t = "tuple"
             THEN Tuple(Array([i \in DOMAIN out |-> out[i].pL]),
                        Array([i \in DOMAIN out |-> out[i].pU]))
        ELSE Array(out)

\* pL, pU = r: a pair unpacks, and so does an array of length 2; any other
\* array raises ValueError.
Unpack2(r) ==
    IF r.t = "tuple" THEN r
    ELSE IF Len(r.v) = 2 THEN Tuple(r.v[1], r.v[2])
    ELSE ValueError

\* An exception that ends plot_results.
PlotRaised(v) == v.t \in {"ZeroDivisionError", "ValueError"}

\* The scalar 1 as fill_between draws it: 1 at every tau.
Ones == Array([i \in DOMAIN TauArray |-> Scale])

\* The upper edge of the band when x == 0, without the special case.
plot_results_upper_pU(pU) == pU

\* The upper edge of the band when x == 0: the scalar 1.
plot_results_upper_zero(pU) == Ones

(***************************************************************************)
(* The sliders of interact(plot_results, x=x, y=y).                        *)
(***************************************************************************)
\* The slider defaults of x and y.
DefaultX == 10
DefaultY == 10

\* x = FloatSlider(min=0, max=100, step=1, value=10)
SliderX == [min |-> 0, max |-> 100, step |-> 1, value |-> DefaultX]

\* y with min = 0
SliderY_min0 == [min |-> 0, max |-> 200, step |-> 1, value |-> DefaultY]

\* y = FloatSlider(min=1, max=200, step=1, value=10)
SliderY == [min |-> 1, max |-> 200, step |-> 1, value |-> DefaultY]

\* The value a slider takes when it is moved to position v: the widget
\* keeps it within [min, max].
Clamp(s, v) == IF v < s.min THEN s.min ELSE IF v > s.max THEN s.max ELSE v

\* Positions a slider is moved to: around its lower end (below it too), its
\* initial value, and its upper end (above it too).
SlideRequests(s) ==
    {s.min + k * s.step : k \in (-1)..MaxSlide}
        \cup {s.value, s.max, s.max + s.step}

(***************************************************************************)
(* make_segments(x, y) and colorline(x, y, z).  Arrays are sequences, an   *)
(* array of more dimensions a sequence of sequences (row-major).           *)
(***************************************************************************)
\* m.T of a two-dimensional array with Len(m) >= 1 rows
Transpose(m) ==
    [i \in 1..Len(m[1]) |-> [j \in 1..Len(m) |-> m[j][i]]]

\* The elements of a two-dimensional array in row-major order.
Flatten(m) ==
    IF Len(m) = 0 THEN <<>>
    ELSE LET cols == Len(m[1])
         IN  [k \in 1..(Len(m) * cols) |->
                 m[((k - 1) \div cols) + 1][((k - 1) % cols) + 1]]

\* m.reshape(-1, 1, 2): rows of one pair each, as many as the elements
\* allow.
Reshape12(m) ==
    LET flat == Flatten(m)
    IN  [i \in 1..(Len(flat) \div 2) |-> << <<flat[2 * i - 1], flat[2 * i]>> >>]

\* a[:-1] and a[1:]
ButLast(a) == SubSeq(a, 1, Len(a) - 1)
ButFirst(a) == SubSeq(a, 2, Len(a))

\* np.concatenate([a, b], axis=1)
Concatenate1(a, b) == [i \in 1..Len(a) |-> a[i] \o b[i]]

\* points without the transposition: np.array([x,y]).reshape(-1, 1, 2)
make_segments_points_flat(x, y) == Reshape12(<<x, y>>)

\* points = np.array([x,y]).T.reshape(-1, 1, 2)
make_segments_points(x, y) == Reshape12(Transpose(<<x, y>>))

\* segments = np.concatenate([points[:-1], points[1:]], axis=1)
make_segments(x, y) ==
    LET points == make_segments_points(x, y)
    IN  Concatenate1(ButLast(points), ButFirst(points))

\* ListedColormap(['0.75', '#0FABF6', '#0000FF', '#00FF00', '#FF8100',
\*                 '#ff0000'])
Colors == <<"0.75", "#0FABF6", "#0000FF", "#00FF00", "#FF8100", "#ff0000">>

\* [0, 17.5, 24.5, 32.5, 44.2, 55.5, 1000]
Boundaries == <<PyInt(0), PyFloat(35, 2), PyFloat(49, 2), PyFloat(65, 2),
                PyFloat(221, 5), PyFloat(111, 2), PyInt(1000)>>

SetMax(S) == CHOOSE i \in S : \A j \in S : j <= i

\* The loop of BoundaryNorm with > for >=.
BoundaryNorm_loop_gt(boundaries, v) ==
    SetMax({0} \cup {i - 1 : i \in {k \in DOMAIN boundaries :
                                        PyLt(boundaries[k], v)}})

\* The loop of BoundaryNorm: for i, b in enumerate(boundaries):
\* iret[xx >= b] = i
BoundaryNorm_loop(boundaries, v) ==
    SetMax({0} \cup {i - 1 : i \in {k \in DOMAIN boundaries :
                                        PyLe(boundaries[k], v)}})

\* BoundaryNorm(boundaries, ncolors)(v): the index of the bin of v, scaled
\* when there are more colours than bins; -1 below the first boundary and
\* ncolors from the last boundary on.
BoundaryNorm(boundaries, ncolors, v) ==
    LET iret == BoundaryNorm_loop(boundaries, v)
    IN  IF PyLt(v, boundaries[1]) THEN -1
        ELSE IF PyLe(boundaries[Len(boundaries)], v) THEN ncolors
        ELSE IF ncolors # Len(boundaries) - 1
             THEN (iret * (ncolors - 1)) \div (Len(boundaries) - 2)
        ELSE iret

\* cmap(i) of a ListedColormap for an integer i: the i-th colour, the first
\* colour below the range and the last colour above it.
ListedColormap(colors, i) ==
    IF i < 0 THEN colors[1]
    ELSE IF i > Len(colors) - 1 THEN colors[Len(colors)]
    ELSE colors[i + 1]

\* np.linspace(0.0, 1.0, num)
Linspace01(num) ==
    [i \in 1..num |-> IF num = 1 THEN PyFloat(0, 1)
                                ELSE PyFloat(i - 1, num - 1)]

\* The value of the array that colours segment i, were it the value at
\* the end point of the segment.
CollectionIndex_end(n, i) == (i % n) + 1

\* The value of the array that colours segment i when a collection of n
\* colours is drawn: the colours are taken in order, one per segment, and
\* again from the first when there are fewer colours than segments.
CollectionIndex(n, i) == ((i - 1) % n) + 1

\* LineCollection(segments, array=z, cmap=cmap, norm=norm, ..): the
\* segments, the array and the bin and the colour of each of its values,
\* and for each segment the index of the value that colours it and the
\* colour it is drawn in.
LineCollection(segments, z, colors, boundaries) ==
    [segments |-> segments,
     array |-> z,
     bins |-> [i \in DOMAIN z |-> BoundaryNorm(boundaries, Len(colors), z[i])],
     colors |-> [i \in DOMAIN z |->
                    ListedColormap(colors,
                        BoundaryNorm(boundaries, Len(colors), z[i]))],
     used |-> [i \in DOMAIN segments |-> CollectionIndex(Len(z), i)],
     drawn |-> [i \in DOMAIN segments |->
                   ListedColormap(colors,
                       BoundaryNorm(boundaries, Len(colors),
                                    z[CollectionIndex(Len(z), i)]))]]

(***************************************************************************)
(* The figures: MapFigure of PlotInterface.maps, its subclasses            *)
(* TrackMapFigure and SingleTrackMap, and saveFigure.  A figure is its     *)
(* list of subfigures and, for each call of MapFigure.plot, the axes the   *)
(* call has made, each with the calls subplot has made on it in order.     *)
(***************************************************************************)
\* MapFigure.__init__: self.subfigures = []
MapFigure == [subfigures |-> <<>>, plots |-> <<>>]

\* SingleTrackMap(): neither it nor TrackMapFigure defines __init__
SingleTrackMap == MapFigure

\* add with an assignment for the append:
\* self.subfigures = [(tracks, xgrid, ygrid, title, map_kwargs)]
add_assign(subfigures, tracks, xgrid, ygrid, title, map_kwargs) ==
    << <<tracks, xgrid, ygrid, title, map_kwargs>> >>

\* self.subfigures.append((tracks, xgrid, ygrid, title, map_kwargs))
add(subfigures, tracks, xgrid, ygrid, title, map_kwargs) ==
    Append(subfigures, <<tracks, xgrid, ygrid, title, map_kwargs>>)

\* A call on the axes or the map of a subfigure.
AxesCall(name, arg) == [call |-> name, arg |-> arg]

\* subplot(axes, subfigure): createMap, colorline for each track of
\* tracks, then set_title, labelAxes, addGraticule, addCoastline,
\* fillContinents and addMapScale.
subplot(subfigure) ==
    LET tracks == subfigure[1]
        xgrid == subfigure[2]
        ygrid == subfigure[3]
        title == subfigure[4]
        map_kwargs == subfigure[5]
    IN  <<AxesCall("createMap", <<xgrid, ygrid, map_kwargs>>)>>
        \o [i \in DOMAIN tracks |-> AxesCall("colorline", <<tracks[i]>>)]
        \o <<AxesCall("set_title", <<title>>),
             AxesCall("labelAxes", <<>>),
             AxesCall("addGraticule", <<>>),
             AxesCall("addCoastline", <<>>),
             AxesCall("fillContinents", <<>>),
             AxesCall("addMapScale", <<>>)>>

\* MapFigure.plot(): an axes for each subfigure of the list, in the order
\* of the list, and self.subplot(axes, subfigure) on it.
MapFigure_plot(self) ==
    [self EXCEPT !.plots =
        Append(@, [i \in DOMAIN self.subfigures |->
                      subplot(self.subfigures[i])])]

\* saveFigure(fig, filename): the figure is written to the file.
saveFigure(written, fig, filename) ==
    [written EXCEPT ![filename] = <<fig>>]

\* The files by name, none written.
NoFiles == [f \in {"tracks.png"} |-> <<>>]

(***************************************************************************)
(* Arguments.                                                              *)
(***************************************************************************)
\* Counts: Python ints 0..MaxCount and floats 0, 0.5, .., MaxCount, and the
\* slider default.
IntCounts == {PyInt(i) : i \in 0..MaxCount}
FloatCounts == {PyFloat(i, 2) : i \in 0..(2 * MaxCount)}
Counts == IntCounts \cup FloatCounts
CountsX == Counts \cup {PyInt(DefaultX), PyFloat(DefaultX, 1)}
CountsY == Counts \cup {PyInt(DefaultY), PyFloat(DefaultY, 1)}

\* tau = np.array([0.5, 1., 2., 3., 4., 5.]) of plot_results, and int ratios
\* such as the module-level tau = T1/T2 = 20/10.
TauSweep == {PyFloat(1, 2), PyFloat(1, 1), PyFloat(2, 1), PyFloat(3, 1),
             PyFloat(4, 1), PyFloat(5, 1)}
IntTaus == {PyInt(i) : i \in 1..MaxIntTau}
Taus == TauSweep \cup IntTaus
ZeroTaus == {PyInt(0), PyFloat(0, 1)}

\* alpha = 0.05 of plot_results, and 0.1 and 0.5.
Alphas == {PyFloat(1, 20), PyFloat(1, 10), PyFloat(1, 2)}

\* mu = 0.5 and beta = 1.5 of the notebook, and 1.0 and 0.5.
Mus == {PyFloat(1, 2), PyFloat(1, 1)}
Betas == {PyFloat(3, 2), PyFloat(1, 2)}

\* Period lengths: ints (as T1 = 20, T2 = 10) and floats.
Periods == {PyInt(i) : i \in 1..MaxPeriod}
               \cup {PyFloat(i, 1) : i \in 1..MaxPeriod}

\* Counts of jointProb: ints 0..MaxJointCount and the first count whose
\* factorial overflows.
JointCounts == {PyInt(i) : i \in 0..MaxJointCount}
                   \cup {PyInt(MaxFactorial + 1)}

NoArgs == [x |-> PyNone, y |-> PyNone, tau |-> PyNone, alpha |-> PyNone,
           mu |-> PyNone, beta |-> PyNone, T1 |-> PyNone, T2 |-> PyNone,
           z |-> PyNone, self |-> PyNone, tracks |-> PyNone,
           xgrid |-> PyNone, ygrid |-> PyNone, title |-> PyNone,
           map_kwargs |-> PyNone, filename |-> PyNone]

\* vatt and vconf hold the values of tau with which the vectorized
\* functions have called attributable and confidence.
NoLocals == [n |-> PyNone, q |-> PyNone, z |-> 0, det |-> 0, a |-> 0,
             b |-> 0, L |-> 0, U |-> 0, beta_L |-> 0, beta_U |-> 0,
             tau |-> PyNone, xyfac |-> PyNone, xfac |-> PyNone,
             yfac |-> PyNone, totalobs |-> PyNone, condprob |-> PyNone,
             alpha |-> PyNone, vatt |-> <<>>, vconf |-> <<>>, p |-> PyNone,
             pL |-> PyNone, pU |-> PyNone, band |-> PyNone,
             segments |-> <<>>, lc |-> PyNone, collections |-> <<>>,
             fig |-> PyNone]

\* No call has ended yet.
NoCall == [fn |-> "none", args |-> NoArgs, ret |-> PyNone,
           glob |-> NoGlobals]

JointProbArgs ==
    {[NoArgs EXCEPT !.x = x, !.y = y, !.mu = mu, !.beta = beta,
                    !.T1 = T1, !.T2 = T2] :
        x \in JointCounts, y \in JointCounts, mu \in Mus, beta \in Betas,
        T1 \in Periods, T2 \in Periods}

\* Calls with Python scalars, tau = 0 included, and calls with the NumPy
\* scalars that np.vectorize passes when it probes the function.
AttributableArgs ==
    {[NoArgs EXCEPT !.x = x, !.y = y, !.tau = tau] :
        x \in CountsX, y \in CountsY, tau \in Taus \cup ZeroTaus}
    \cup
    {[NoArgs EXCEPT !.x = NpScalar(x), !.y = NpScalar(y),
                    !.tau = NpScalar(tau)] :
        x \in FloatCounts, y \in FloatCounts,
        tau \in TauSweep \cup {PyFloat(0, 1)}}

ConfidenceArgs ==
    {[NoArgs EXCEPT !.x = x, !.y = y, !.alpha = alpha, !.tau = tau] :
        x \in CountsX, y \in CountsY, alpha \in Alphas, tau \in Taus}

\* Coordinates of points, and the coordinate sequences of N points.
Coords == 0..MaxCoord
Points(N) == [1..N -> Coords]

MakeSegmentsArgs ==
    UNION {{[NoArgs EXCEPT !.x = x, !.y = y] :
               x \in Points(N), y \in Points(N)} : N \in 0..MaxPoints}

\* Intensities (wind speeds): the boundaries of the colour ramp and the
\* values 0.1 below them.
Intensities ==
    {Boundaries[i] : i \in DOMAIN Boundaries}
        \cup {PySub(Boundaries[i], PyFloat(1, 10)) : i \in DOMAIN Boundaries}

\* The coordinates of a track of N points.
TrackX(N) == [i \in 1..N |-> i - 1]
TrackY(N) == [i \in 1..N |-> (i - 1) % (MaxCoord + 1)]

\* colorline(x, y, z): z omitted (None), a scalar, or one intensity per
\* point, on tracks of up to MaxTrack points; z omitted or the intensities
\* of a track that crosses a threshold of the colour ramp at every point
\* (0, 17.5, 24.5, ..) on tracks of up to MaxPoints points.
ColorlineArgs ==
    UNION {{[NoArgs EXCEPT !.x = TrackX(N), !.y = TrackY(N), !.z = z] :
               z \in {PyNone} \cup Intensities
                       \cup {Array(a) : a \in [1..N -> Intensities]}} :
           N \in 0..MaxTrack}
    \cup
    UNION {{[NoArgs EXCEPT !.x = TrackX(N), !.y = TrackY(N), !.z = z] :
               z \in {PyNone, Array([i \in 1..N |-> Boundaries[i]])}} :
           N \in 0..MaxPoints}

\* plot(self, tracks, xgrid, ygrid, title, map_kwargs) and
\* saveTrackMap(tracks, xgrid, ygrid, title, map_kwargs, filename): the
\* track data set has no track, or two tracks in either order.
TrackMapArgs ==
    {[NoArgs EXCEPT !.tracks = tracks, !.xgrid = "xgrid",
                    !.ygrid = "ygrid", !.title = title,
                    !.map_kwargs = "map_kwargs"] :
        tracks \in {<<>>, <<"a", "b">>, <<"b", "a">>}, title \in {"A"}}

\* plot_results called directly, with int or float counts.
PlotArgs ==
    {[NoArgs EXCEPT !.x = x, !.y = y] : x \in CountsX, y \in CountsY}

\* The calls of a notebook session: a few calls of each function, with the
\* module-level tau = 2 and other values of tau among them.
SessionCalls ==
    {[fn |-> "jointProb", args |-> a] :
        a \in {j \in JointProbArgs :
                  /\ j.x = PyInt(1) /\ j.y = PyInt(1)
                  /\ j.mu = PyFloat(1, 2) /\ j.beta = PyFloat(3, 2)
                  /\ j.T2 = PyInt(1)}}
    \cup
    {[fn |-> "attributable", args |-> a] :
        a \in {j \in AttributableArgs :
                  /\ j.x = PyInt(DefaultX) /\ j.y = PyInt(DefaultY)
                  /\ j.tau \in IntTaus}}
    \cup
    {[fn |-> "confidence", args |-> a] :
        a \in {j \in ConfidenceArgs :
                  /\ j.x \in {PyInt(0), PyInt(DefaultX)}
                  /\ j.y \in {PyInt(0), PyInt(DefaultY)}
                  /\ j.alpha = PyFloat(1, 20)
                  /\ j.tau \in IntTaus}}

\* The position at which a call starts.
Entry(f) ==
    CASE f = "confidence" -> "L321"
      [] f = "plot_results" -> "L357"
      [] OTHER -> "call"

\* A call about to run, all cells of module-level assignments executed.
InitCall(f) ==
    /\ fn = f
    /\ \/ f = "jointProb" /\ args \in JointProbArgs
       \/ f = "attributable" /\ args \in AttributableArgs
       \/ f = "confidence" /\ args \in ConfidenceArgs
       \/ f = "plot_results" /\ args \in PlotArgs
       \/ f = "make_segments" /\ args \in MakeSegmentsArgs
       \/ f = "colorline" /\ args \in ColorlineArgs
    /\ pc = Entry(f)
    /\ loc = NoLocals
    /\ ret = PyNone
    /\ executed = <<>>
    /\ glob = ModuleGlobals
    /\ cells = ModuleGlobals
    /\ first = NoCall
    /\ figures = <<>>
    /\ files = NoFiles

Init ==
    \E f \in {"jointProb", "attributable", "confidence", "plot_results",
              "make_segments", "colorline"} :
        InitCall(f)
InitMakeSegments == InitCall("make_segments")
InitColorline == InitCall("colorline")
InitJointProb == InitCall("jointProb")
InitAttributable == InitCall("attributable")
InitConfidence == InitCall("confidence")
InitPlot == InitCall("plot_results")

\* A fresh kernel: no cell of module-level assignments executed, no call
\* made.
InitSession ==
    /\ fn = "none"
    /\ args = NoArgs
    /\ pc = "idle"
    /\ loc = NoLocals
    /\ ret = PyNone
    /\ executed = <<>>
    /\ glob = NoGlobals
    /\ cells = NoGlobals
    /\ first = NoCall
    /\ figures = <<>>
    /\ files = NoFiles

\* interact(plot_results, x=x, y=y): plot_results is called with the
\* initial values of the sliders.
InitInteract ==
    /\ fn = "plot_results"
    /\ args = [NoArgs EXCEPT !.x = PyFloat(SliderX.value, 1),
                             !.y = PyFloat(SliderY.value, 1)]
    /\ pc = Entry("plot_results")
    /\ loc = NoLocals
    /\ ret = PyNone
    /\ executed = <<>>
    /\ glob = ModuleGlobals
    /\ cells = ModuleGlobals
    /\ first = NoCall
    /\ figures = <<>>
    /\ files = NoFiles

\* A session of the track map cells: no figure made, no file written.
InitTrackMap ==
    /\ fn = "none"
    /\ args = NoArgs
    /\ pc = "idle"
    /\ loc = NoLocals
    /\ ret = PyNone
    /\ executed = <<>>
    /\ glob = ModuleGlobals
    /\ cells = ModuleGlobals
    /\ first = NoCall
    /\ figures = <<>>
    /\ files = NoFiles

(***************************************************************************)
(* The calls.                                                              *)
(***************************************************************************)
CallMakeSegments ==
    /\ fn = "make_segments" /\ pc = "call"
    /\ ret' = make_segments(args.x, args.y)
    /\ executed' = <<45, 46, 47>>
    /\ pc' = "done"
    /\ UNCHANGED <<fn, args, loc, glob, cells, first, figures, files>>

\* if z is None: z = np.linspace(0.0, 1.0, len(x)); if not hasattr(z,
\* '__iter__'): z = np.array([z]); z = np.asarray(z); segments = ..;
\* cmap = ..; norm = ..; lc = ..; ax = self.gca(); ax.add_collection(lc)
CallColorline ==
    /\ fn = "colorline" /\ pc = "call"
    /\ LET z1 == IF args.z.t = "None"
                 THEN Array(Linspace01(Len(args.x))) ELSE args.z
           z2 == IF z1.t # "array" THEN Array(<<z1>>) ELSE z1
           segments == make_segments(args.x, args.y)
           lc == LineCollection(segments, z2.v, Colors, Boundaries)
       IN  /\ loc' = [loc EXCEPT !.z = z2, !.segments = segments,
                                 !.lc = lc,
                                 !.collections = Append(loc.collections, lc)]
           /\ executed' =
                  <<67>> \o (IF args.z.t = "None" THEN <<68>> ELSE <<>>)
                  \o <<70>> \o (IF z1.t # "array" THEN <<71>> ELSE <<>>)
                  \o <<73, 75, 76, 78, 79, 82, 83, 84>>
    /\ ret' = PyNone
    /\ pc' = "done"
    /\ UNCHANGED <<fn, args, glob, cells, first, figures, files>>

CallJointProb ==
    /\ fn = "jointProb" /\ pc = "call"
    /\ LET r == jointProb(args.x, args.y, args.mu, args.beta, args.T1,
                          args.T2)
       IN  /\ loc' = [loc EXCEPT !.tau = IF "tau" \in GlobalDecl(fn)
                                         THEN loc.tau ELSE r.tau,
                                 !.xyfac = r.xyfac,
                                 !.xfac = r.xfac, !.yfac = r.yfac,
                                 !.totalobs = r.totalobs,
                                 !.condprob = r.condprob]
           /\ glob' = Assigned(fn, glob, "tau", r.tau)
           /\ ret' = r.pr
    /\ executed' = <<270, 271, 272, 273, 274, 275, 277, 279>>
    /\ pc' = "done"
    /\ UNCHANGED <<fn, args, cells, first, figures, files>>

CallAttributable ==
    /\ fn = "attributable" /\ pc = "call"
    /\ ret' = attributable(args.x, args.y, args.tau)
    /\ executed' = <<300>>
    /\ pc' = "done"
    /\ UNCHANGED <<fn, args, loc, glob, cells, first, figures, files>>

\* if y == 0: return None
ConfidenceGuard ==
    /\ fn = "confidence" /\ pc = "L321"
    /\ IF confidence_guard(args.y)
       THEN /\ ret' = PyNone
            /\ executed' = <<321, 322>>
            /\ pc' = "done"
       ELSE /\ ret' = ret
            /\ executed' = <<321>>
            /\ pc' = "L324"
    /\ UNCHANGED <<fn, args, loc, glob, cells, first, figures, files>>

\* n = x + y; q = x/n
ConfidenceProportion ==
    /\ fn = "confidence" /\ pc = "L324"
    /\ LET n == confidence_n(args.x, args.y)
           q == confidence_q(args.x, n)
       IN  /\ loc' = [loc EXCEPT !.n = n, !.q = q]
           /\ IF IsRaised(q)
              THEN ret' = q /\ pc' = "done"
              ELSE ret' = ret /\ pc' = "L326"
    /\ executed' = executed \o <<324, 325>>
    /\ UNCHANGED <<fn, args, glob, cells, first, figures, files>>

\* if x == 0: p_U = ..; p_L = ..; return p_L, p_U
ConfidenceZero ==
    /\ fn = "confidence" /\ pc = "L326"
    /\ confidence_zero(args.x)
    /\ ret' = Tuple(confidence_zero_pL(args.alpha, args.tau, loc.n),
                    confidence_zero_pU(args.alpha, loc.n))
    /\ executed' = executed \o <<326, 327, 328, 329>>
    /\ pc' = "done"
    /\ UNCHANGED <<fn, args, loc, glob, cells, first, figures, files>>

\* z = ..; det = ..; a = ..; b = ..; L = ..; U = ..; beta_U = ..;
\* beta_L = ..; p_L = ..; p_U = ..; return p_L, p_U
ConfidenceGeneral ==
    /\ fn = "confidence" /\ pc = "L326"
    /\ ~confidence_zero(args.x)
    /\ LET z == confidence_z(args.alpha)
           det == confidence_det(loc.q, z, loc.n)
           a == confidence_a(args.x, z, loc.n)
           b == confidence_b(z, loc.n)
           L == confidence_L(a, b, det)
           U == confidence_U(a, b, det)
           beta_U == confidence_beta(args.tau, U)
           beta_L == confidence_beta(args.tau, L)
       IN  /\ loc' = [loc EXCEPT !.z = z, !.det = det, !.a = a, !.b = b,
                                 !.L = L, !.U = U, !.beta_U = beta_U,
                                 !.beta_L = beta_L]
           /\ ret' = Tuple(confidence_p(beta_L), confidence_p(beta_U))
    /\ executed' = executed \o <<326, 331, 333, 334, 335, 336, 337, 339, 340,
                                 342, 343, 345>>
    /\ pc' = "done"
    /\ UNCHANGED <<fn, args, glob, cells, first, figures, files>>

\* tau = ..; alpha = 0.05; vatt = ..; vconf = ..; p = vatt(x, y, tau)
PlotAttributable ==
    /\ fn = "plot_results" /\ pc = "L357"
    /\ \E tau \in {TauArray}, alpha \in {PyFloat(1, 20)} :
       \E p \in {vatt(args.x, args.y, tau)} :
           /\ loc' = [loc EXCEPT !.tau = Array(tau), !.alpha = alpha,
                                 !.vatt = VectorizeCalls(tau),
                                 !.p = IF PlotRaised(p) THEN loc.p ELSE p]
           /\ glob' = Assigned(fn, glob, "tau", Array(tau))
           /\ IF PlotRaised(p)
              THEN ret' = p /\ pc' = "done"
              ELSE ret' = ret /\ pc' = "L363"
    /\ executed' = <<357, 358, 359, 360, 362>>
    /\ UNCHANGED <<fn, args, cells, first, figures, files>>

\* pL, pU = vconf(x, y, alpha, tau)
PlotConfidence ==
    /\ fn = "plot_results" /\ pc = "L363"
    /\ \E r \in {vconf(args.x, args.y, loc.alpha, loc.tau.v)} :
       \E u \in {IF PlotRaised(r) THEN r ELSE Unpack2(r)} :
           /\ IF PlotRaised(u)
              THEN /\ loc' = [loc EXCEPT !.vconf = VectorizeCalls(loc.tau.v)]
                   /\ ret' = u
                   /\ pc' = "done"
              ELSE /\ loc' = [loc EXCEPT !.vconf = VectorizeCalls(loc.tau.v),
                                         !.pL = u.pL, !.pU = u.pU]
                   /\ ret' = ret
                   /\ pc' = "L365"
    /\ executed' = executed \o <<363>>
    /\ UNCHANGED <<fn, args, glob, cells, first, figures, files>>

\* fig, ax = ..; ax.plot(tau, p, ..); if x == 0.: ax.fill_between(tau, pL,
\* 1, ..) else: ax.fill_between(tau, pL, pU, ..); ax.set_xlabel(..); ..
PlotDraw ==
    /\ fn = "plot_results" /\ pc = "L365"
    /\ IF IsZero(args.x)
       THEN /\ loc' = [loc EXCEPT !.band =
                           [lower |-> loc.pL,
                            upper |-> plot_results_upper_zero(loc.pU)]]
            /\ executed' = executed \o <<365, 367, 368, 369, 372, 373, 374,
                                         375>>
       ELSE /\ loc' = [loc EXCEPT !.band =
                           [lower |-> loc.pL, upper |-> loc.pU]]
            /\ executed' = executed \o <<365, 367, 368, 371, 372, 373, 374,
                                         375>>
    /\ ret' = PyNone
    /\ pc' = "done"
    /\ UNCHANGED <<fn, args, glob, cells, first, figures, files>>

\* A slider is moved, its value changes and interact calls plot_results
\* with the values of the two sliders.
Slide ==
    /\ fn = "plot_results" /\ pc = "done"
    /\ \E vx \in SlideRequests(SliderX), vy \in SlideRequests(SliderY) :
           /\ \/ /\ args' = [args EXCEPT
                                  !.x = PyFloat(Clamp(SliderX, vx), 1)]
              \/ /\ args' = [args EXCEPT
                                  !.y = PyFloat(Clamp(SliderY, vy), 1)]
           /\ args' # args
    /\ pc' = Entry("plot_results")
    /\ loc' = NoLocals
    /\ ret' = PyNone
    /\ executed' = <<>>
    /\ UNCHANGED <<fn, glob, cells, first, figures, files>>

\* The cell of lines 222-223 is executed.
RunCell222 ==
    /\ pc \in {"idle", "done"}
    /\ glob' = Cell222(glob)
    /\ cells' = Cell222(cells)
    /\ UNCHANGED <<fn, args, pc, loc, ret, executed, first, figures,
                 files>>

\* The cell of lines 241-243 is executed.
RunCell241 ==
    /\ pc \in {"idle", "done"}
    /\ glob' = Cell241(glob)
    /\ cells' = Cell241(cells)
    /\ UNCHANGED <<fn, args, pc, loc, ret, executed, first, figures,
                 files>>

\* A cell calls jointProb, attributable or confidence.
NewCall ==
    /\ pc \in {"idle", "done"}
    /\ \E c \in SessionCalls :
           /\ fn' = c.fn
           /\ args' = c.args
           /\ pc' = Entry(c.fn)
    /\ loc' = NoLocals
    /\ ret' = PyNone
    /\ executed' = <<>>
    /\ first' = IF pc = "done" /\ first = NoCall
                THEN [fn |-> fn, args |-> args, ret |-> ret, glob |-> glob]
                ELSE first
    /\ UNCHANGED <<glob, cells, figures, files>>

\* The subfigures of all figures of the session.
RECURSIVE TotalSubfigures(_)
TotalSubfigures(figs) ==
    IF figs = <<>> THEN 0
    ELSE Len(figs[1].subfigures) + TotalSubfigures(Tail(figs))

\* A cell makes a figure: SingleTrackMap()
NewFigure ==
    /\ pc \in {"idle", "done"}
    /\ Len(figures) < MaxFigures
    /\ figures' = Append(figures, SingleTrackMap)
    /\ UNCHANGED <<fn, args, pc, loc, ret, executed, glob, cells, first,
                   files>>

\* A cell calls plot on one of its figures.
CallPlot ==
    /\ pc \in {"idle", "done"}
    /\ TotalSubfigures(figures) < MaxPlots
    /\ \E f \in DOMAIN figures, a \in TrackMapArgs :
           args' = [a EXCEPT !.self = f]
    /\ fn' = "plot"
    /\ pc' = "L123"
    /\ loc' = NoLocals
    /\ ret' = PyNone
    /\ executed' = <<>>
    /\ UNCHANGED <<glob, cells, first, figures, files>>

\* A cell calls saveTrackMap.
CallSaveTrackMap ==
    /\ pc \in {"idle", "done"}
    /\ \E a \in TrackMapArgs, filename \in DOMAIN files :
           args' = [a EXCEPT !.filename = filename]
    /\ fn' = "saveTrackMap"
    /\ pc' = "L128"
    /\ loc' = NoLocals
    /\ ret' = PyNone
    /\ executed' = <<>>
    /\ UNCHANGED <<glob, cells, first, figures, files>>

\* fig = SingleTrackMap(); fig.plot(tracks, xgrid, ygrid, title,
\* map_kwargs) is entered.
SaveTrackMapFigure ==
    /\ fn = "saveTrackMap" /\ pc = "L128"
    /\ loc' = [loc EXCEPT !.fig = SingleTrackMap]
    /\ executed' = executed \o <<128, 129>>
    /\ pc' = "L123"
    /\ UNCHANGED <<fn, args, ret, glob, cells, first, figures, files>>

\* self.add(tracks, xgrid, ygrid, title, map_kwargs), on the figure of
\* the session or on the local figure of saveTrackMap.
PlotAdd ==
    /\ fn \in {"plot", "saveTrackMap"} /\ pc = "L123"
    /\ \/ /\ fn = "plot"
          /\ figures' = [figures EXCEPT ![args.self].subfigures =
                             add(@, args.tracks, args.xgrid, args.ygrid,
                                 args.title, args.map_kwargs)]
          /\ loc' = loc
       \/ /\ fn = "saveTrackMap"
          /\ loc' = [loc EXCEPT !.fig.subfigures =
                         add(@, args.tracks, args.xgrid, args.ygrid,
                             args.title, args.map_kwargs)]
          /\ figures' = figures
    /\ executed' = executed \o <<123, 87>>
    /\ pc' = "L124"
    /\ UNCHANGED <<fn, args, ret, glob, cells, first, files>>

\* super(SingleTrackMap, self).plot(); plot returns, to the cell or to
\* line 130 of saveTrackMap.
PlotSuper ==
    /\ fn \in {"plot", "saveTrackMap"} /\ pc = "L124"
    /\ \/ /\ fn = "plot"
          /\ figures' = [figures EXCEPT ![args.self] = MapFigure_plot(@)]
          /\ loc' = loc
          /\ pc' = "done"
       \/ /\ fn = "saveTrackMap"
          /\ loc' = [loc EXCEPT !.fig = MapFigure_plot(@)]
          /\ figures' = figures
          /\ pc' = "L130"
    /\ executed' = Append(executed, 124)
    /\ UNCHANGED <<fn, args, ret, glob, cells, first, files>>

\* saveFigure(fig, filename); saveTrackMap returns.
SaveTrackMapSave ==
    /\ fn = "saveTrackMap" /\ pc = "L130"
    /\ files' = saveFigure(files, loc.fig, args.filename)
    /\ executed' = Append(executed, 130)
    /\ pc' = "done"
    /\ UNCHANGED <<fn, args, loc, ret, glob, cells, first, figures>>

NextTrackMap ==
    \/ NewFigure
    \/ CallPlot
    \/ CallSaveTrackMap
    \/ SaveTrackMapFigure
    \/ PlotAdd
    \/ PlotSuper
    \/ SaveTrackMapSave

NextConfidence ==
    \/ ConfidenceGuard
    \/ ConfidenceProportion
    \/ ConfidenceZero
    \/ ConfidenceGeneral

NextPlot ==
    \/ PlotAttributable
    \/ PlotConfidence
    \/ PlotDraw

NextInteract ==
    \/ PlotAttributable
    \/ PlotConfidence
    \/ PlotDraw
    \/ Slide

NextSession ==
    \/ RunCell222
    \/ RunCell241
    \/ NewCall
    \/ CallJointProb
    \/ CallAttributable
    \/ ConfidenceGuard
    \/ ConfidenceProportion
    \/ ConfidenceZero
    \/ ConfidenceGeneral

Next ==
    \/ CallMakeSegments
    \/ CallColorline
    \/ CallJointProb
    \/ CallAttributable
    \/ ConfidenceGuard
    \/ ConfidenceProportion
    \/ ConfidenceZero
    \/ ConfidenceGeneral
    \/ PlotAttributable
    \/ PlotConfidence
    \/ PlotDraw

Spec == Init /\ [][Next]_vars
SpecMakeSegments == InitMakeSegments /\ [][CallMakeSegments]_vars
SpecColorline == InitColorline /\ [][CallColorline]_vars
SpecPlot == InitPlot /\ [][NextPlot]_vars
SpecInteract == InitInteract /\ [][NextInteract]_vars
SpecSession == InitSession /\ [][NextSession]_vars
SpecJointProb == InitJointProb /\ [][CallJointProb]_vars
SpecAttributable == InitAttributable /\ [][CallAttributable]_vars
SpecConfidence == InitConfidence /\ [][NextConfidence]_vars
SpecTrackMap == InitTrackMap /\ [][NextTrackMap]_vars

(***************************************************************************)
(* Properties.                                                             *)
(***************************************************************************)
ExecutedLines == {executed[i] : i \in DOMAIN executed}

\* The source lines of the general case of confidence.
GeneralLines == {331, 333, 334, 335, 336, 337, 339, 340, 342, 343, 345}

Returned(f) == fn = f /\ pc = "done"

One == PyFloat(1, 1)

\* C1: confidence(x, y, alpha, tau) with y == 0 returns None for every x,
\* alpha and tau: it returns no pair and no number, it raises nothing, and
\* only the guard (lines 321-322) is executed.
ConfidenceZeroYReturnsNone ==
    (Returned("confidence") /\ IsZero(args.y))
        => (ret.t = "None" /\ executed = <<321, 322>>)

ConfidenceZeroYWitness ==
    /\ Returned("confidence")
    /\ args.y = PyFloat(0, 1)
    /\ args.x = PyFloat(DefaultX, 1)
    /\ ret.t = "None"

\* C2: whenever confidence returns a pair (p_L, p_U) for valid inputs, in
\* the x == 0 branch or in the general branch, p_L <= p_U.
ConfidenceOrdered ==
    (Returned("confidence") /\ ret.t = "tuple") => ret.pL <= ret.pU

\* C3: for y > 0 and tau > 0, with int or float x and y, attributable(x, y,
\* tau) is exactly 1 - x/(tau*y) with a true division.
AttributableExact ==
    (Returned("attributable") /\ args.y.n > 0 /\ args.tau.n > 0)
        => ret = PySub(One, PyDivTrue(args.x, PyMul(args.tau, args.y)))

\* C4 as stated: with x > 0 and y > 0 fixed, a larger tau gives a strictly
\* smaller attributable(x, y, tau).
AttributableDecreasesInTau ==
    (Returned("attributable") /\ args.x.n > 0 /\ args.y.n > 0
                             /\ args.tau.n > 0)
        => \A tau2 \in Taus :
               PyLt(args.tau, tau2)
                   => PyLt(attributable(args.x, args.y, tau2), ret)

\* x / (tau * y) is a true division: one of the operands is a float.
TrueDivision(x, y, tau) == ~(x.t = "int" /\ y.t = "int" /\ tau.t = "int")

\* C4 as amended: with x > 0 and y > 0 fixed, a larger tau gives a strictly
\* larger attributable(x, y, tau), whenever x / (tau * y) is a true division
\* at both values of tau.
AttributableIncreasesInTau ==
    (Returned("attributable") /\ args.x.n > 0 /\ args.y.n > 0
                             /\ args.tau.n > 0)
        => \A tau2 \in Taus :
               (/\ PyLt(args.tau, tau2)
                /\ TrueDivision(args.x, args.y, args.tau)
                /\ TrueDivision(args.x, args.y, tau2))
                   => PyLt(ret, attributable(args.x, args.y, tau2))

\* x = 10, y = 10 at tau = 1.0, which has a larger tau in the sweep: the
\* result is 0.0, and 0.5 at tau = 2.0.
AttributableTauWitness ==
    /\ Returned("attributable")
    /\ args.x = PyInt(DefaultX) /\ args.y = PyInt(DefaultY)
    /\ args.tau = PyFloat(1, 1)
    /\ ret = PyFloat(0, 1)
    /\ attributable(args.x, args.y, PyFloat(2, 1)) = PyFloat(1, 2)

\* C5: for x = y = 0 confidence returns None, and neither q = x/n (line
\* 325) nor any later statement is executed at any point of the call, so
\* nothing is divided by zero and nothing is raised.
ConfidenceDegenerate ==
    (fn = "confidence" /\ IsZero(args.x) /\ IsZero(args.y))
        => /\ ExecutedLines \subseteq {321, 322}
           /\ ~IsRaised(ret)
           /\ loc.q = PyNone
           /\ pc = "done" => ret.t = "None"

ConfidenceDegenerateWitness ==
    /\ Returned("confidence")
    /\ args.x = PyInt(0) /\ args.y = PyInt(0)
    /\ ret.t = "None"
    /\ executed = <<321, 322>>

(***************************************************************************)
(* The mass of the documented model, in exact arithmetic, as the           *)
(* coefficient of exp(-rate): the Poisson total with mean                  *)
(* rate = mu*(T1 + beta*T2) and the binomial split with tau = T1/T2 the    *)
(* exact ratio.                                                            *)
(***************************************************************************)
\* rate^n / n!
PoissonTotal(n, rate) == PyDivTrue(PowExact(rate, n), PyInt(Fact(n)))

\* C(x+y, x) * (tau/(tau+beta))^x * (beta/(tau+beta))^y
BinomialSplit(x, y, tau, beta) ==
    PyMul(PyMul(PyDivTrue(PyInt(Fact(x + y)), PyInt(Fact(x) * Fact(y))),
                PowExact(PyDivTrue(tau, PyAdd(tau, beta)), x)),
          PowExact(PyDivTrue(beta, PyAdd(tau, beta)), y))

ModelMass(x, y, mu, beta, T1, T2) ==
    PyMul(PoissonTotal(x + y, AsFloat(jointProb_rate(mu, beta, T1, T2))),
          BinomialSplit(x, y, PyDivTrue(T1, T2), beta))

\* 1 + r + r^2/2! + .. + r^k/k!, a lower bound of exp(r) for r >= 0
RECURSIVE ExpLower(_, _)
ExpLower(r, k) ==
    IF k = 0 THEN One
    ELSE PyAdd(ExpLower(r, k - 1), PyDivTrue(PowExact(r, k), PyInt(Fact(k))))

\* c * exp(-e) lies in [0, 1]: c is a number, c >= 0 and c <= exp(e).
IsProbability(v, k) ==
    /\ v.t = "expfloat"
    /\ IsExact(v.c)
    /\ v.c.n >= 0
    /\ PyLe(v.c, ExpLower(AsFloat(v.e), k))

\* The sum of jointProb(i, n - i, ..) over i = 0..k, as the coefficient of
\* exp(-rate); a nan term makes the sum nan.
RECURSIVE JointProbSum(_, _, _, _, _, _)
JointProbSum(k, n, mu, beta, T1, T2) ==
    LET term == jointProb(PyInt(k), PyInt(n - k), mu, beta, T1, T2).pr.c
    IN  IF k = 0 \/ term.t = "nan" THEN term
        ELSE PyAdd(JointProbSum(k - 1, n, mu, beta, T1, T2), term)

\* C6: for valid inputs jointProb returns P_total(x+y) * P_split(x | x+y)
\* of the documented model, with tau the exact ratio T1/T2, for int or float
\* period lengths.
JointProbIsModelMass ==
    Returned("jointProb")
        => /\ IsExact(ret.c)
           /\ ret = ExpFloat(ModelMass(args.x.n, args.y.n, args.mu, args.beta,
                                       args.T1, args.T2),
                             jointProb_rate(args.mu, args.beta, args.T1,
                                            args.T2))

\* C7: for valid inputs the value returned by jointProb is a number that is
\* non-negative and at most 1.
JointProbIsProbability ==
    Returned("jointProb") => IsProbability(ret, args.x.n + args.y.n)

\* C8: for the total n = x + y of the call and its (mu, beta, T1, T2), the
\* sum of jointProb(i, n - i, mu, beta, T1, T2) over i = 0..n is the Poisson
\* mass P_total(n) = rate^n * exp(-rate) / n!.
JointProbSumsToTotal ==
    Returned("jointProb")
        => LET n == args.x.n + args.y.n
               sum == JointProbSum(n, n, args.mu, args.beta, args.T1, args.T2)
           IN  /\ IsExact(sum)
               /\ sum = PoissonTotal(n, AsFloat(jointProb_rate(
                             args.mu, args.beta, args.T1, args.T2)))

\* C9: for x == 0 and y > 0 confidence returns p_U = 1 - a and
\* p_L = 1 - (1 - a)/(tau*a) with a = alpha^(1/n), n = x + y, and executes
\* no statement of the general case: z, det, a, b, L, U, beta_L and beta_U
\* are never assigned.
ConfidenceZeroBranch ==
    (Returned("confidence") /\ IsZero(args.x) /\ ~IsZero(args.y))
        => LET a == FxPowInv(FxOf(args.alpha), PyAdd(args.x, args.y))
           IN  /\ ret.t = "tuple"
               /\ ret.pU = Scale - a
               /\ ret.pL = Scale - FxDiv(Scale - a, FxMul(FxOf(args.tau), a))
               /\ ExecutedLines \cap GeneralLines = {}
               /\ executed = <<321, 324, 325, 326, 327, 328, 329>>
               /\ \A v \in {loc.z, loc.det, loc.a, loc.b, loc.L, loc.U,
                              loc.beta_L, loc.beta_U} : v = 0

ConfidenceZeroBranchWitness ==
    /\ Returned("confidence")
    /\ args.x = PyFloat(0, 1) /\ args.y = PyFloat(3, 2)
    /\ args.tau = PyInt(2)
    /\ ret.t = "tuple"
    /\ 327 \in ExecutedLines

\* The state of scenario 2: x = 0, y = 10, tau = 2, alpha = 0.05 returned.
Scenario2 ==
    /\ Returned("confidence")
    /\ IsZero(args.x)
    /\ PyEq(args.y, PyInt(DefaultY))
    /\ PyEq(args.tau, PyInt(2))
    /\ args.alpha = PyFloat(1, 20)

\* v is lo to three significant figures, lo and v in units of 1/1000 and
\* 1/Scale: lo - 0.0005 <= v < lo + 0.0005.
Rounds(v, lo) == 2 * (lo * Half) - Half <= 2 * v /\ 2 * v < 2 * (lo * Half) + Half

\* C10 as stated: for x = 0, y = 10, tau = 2, alpha = 0.05 confidence
\* returns p_U = 0.741 and p_L = -0.129 to three significant figures.
Scenario2AsStated ==
    Scenario2 => (ret.t = "tuple" /\ Rounds(ret.pU, 741)
                  /\ Rounds(ret.pL, -129))

\* C10 as amended: for x = 0, y = 10, tau = 2, alpha = 0.05 confidence takes
\* the x == 0 branch and returns p_U = 1 - 0.05^0.1 = 0.259 and
\* p_L = 1 - (1 - 0.05^0.1)/(2*0.05^0.1) = 0.825 to three significant
\* figures (0.741 is 0.05^0.1 itself).
Scenario2Values ==
    Scenario2 => /\ ret.t = "tuple"
                 /\ 327 \in ExecutedLines
                 /\ Rounds(ret.pU, 259)
                 /\ Rounds(ret.pL, 825)
                 /\ Rounds(confidence_pow(args.alpha, loc.n), 741)

Scenario2Witness == Scenario2 /\ args.y.t = "float" /\ ret.t = "tuple"

\* A numeric error outcome: an infinite or NaN value, or the raised
\* ZeroDivisionError.
NumericError(v) == v.t \in {"inf", "-inf", "nan", "ZeroDivisionError"}

\* C11: attributable has no guard: with y = 0 or tau = 0 the call executes
\* its one statement (line 300) and ends in a numeric error, the raised
\* ZeroDivisionError on Python scalars and -inf or nan on NumPy scalars,
\* never in a finite value and never in None.
AttributableUnguarded ==
    (Returned("attributable") /\ (IsZero(args.y) \/ IsZero(args.tau)))
        => /\ executed = <<300>>
           /\ NumericError(ret)
           /\ ~IsExact(ret)
           /\ ret.t # "None"
           /\ IsRaised(ret) <=> ~IsNumPy(args.tau, args.y)

AttributableUnguardedWitness ==
    /\ Returned("attributable")
    /\ args.x = PyFloat(DefaultX, 1) /\ args.y = PyFloat(0, 1)
    /\ args.tau = PyFloat(2, 1)
    /\ ret = ZeroDivisionError

\* C12: a call of plot_results is not aborted by an undefined point of the
\* sweep: it ends by returning, with the curve and the band drawn.
PlotSweepCompletes ==
    Returned("plot_results")
        => /\ ~PlotRaised(ret)
           /\ 375 \in ExecutedLines
           /\ loc.band # PyNone

GeneralCase == Returned("confidence") /\ args.x.n > 0 /\ args.y.n > 0

\* C14: in the general case, for int or float x and y, q is the exact
\* proportion x/(x+y) and the returned pair is p_L = 1 - 1/beta_L,
\* p_U = 1 - 1/beta_U with beta = tau*(1-bound)/bound, L = a - b*det,
\* U = a + b*det, det = sqrt(q*(1-q) + z^2/(4n)), a = (x + z^2/2)/(n + z^2)
\* and b = z*sqrt(n)/(n + z^2) for the quantile z of the call.
ConfidenceGeneralFormula ==
    GeneralCase
        => LET n == PyAdd(args.x, args.y)
               q == PyDivTrue(args.x, n)
               z == loc.z
               det == FxSqrt(FxMul(FxOf(q), Scale - FxOf(q))
                             + FxDiv(FxMul(z, z), 4 * FxOf(n)))
               a == FxDiv(FxOf(args.x) + FxDiv(FxMul(z, z), 2 * Scale),
                          FxOf(n) + FxMul(z, z))
               b == FxDiv(FxMul(z, FxSqrt(FxOf(n))), FxOf(n) + FxMul(z, z))
               L == a - FxMul(b, det)
               U == a + FxMul(b, det)
               beta_L == FxDiv(FxMul(FxOf(args.tau), Scale - L), L)
               beta_U == FxDiv(FxMul(FxOf(args.tau), Scale - U), U)
           IN  /\ PyEq(loc.q, q)
               /\ ret = Tuple(Scale - FxDiv(Scale, beta_L),
                              Scale - FxDiv(Scale, beta_U))

\* C15: in the general case the quantile z is negative, b is negative and
\* det is non-negative, so L = a - b*det is the larger proportion bound and
\* U = a + b*det the smaller: L >= U.
ConfidenceBoundsSwapped ==
    GeneralCase
        => /\ loc.z < 0
           /\ loc.b < 0
           /\ loc.det >= 0
           /\ loc.L = loc.a - FxMul(loc.b, loc.det)
           /\ loc.U = loc.a + FxMul(loc.b, loc.det)
           /\ loc.L >= loc.U

\* x = 10.0, y = 10.0, alpha = 0.05: L = 0.70 is above U = 0.30.
ConfidenceBoundsSwappedWitness ==
    /\ GeneralCase
    /\ args.x = PyFloat(DefaultX, 1) /\ args.y = PyFloat(DefaultY, 1)
    /\ args.alpha = PyFloat(1, 20)
    /\ Rounds(loc.L, 701) /\ Rounds(loc.U, 299)

\* plot_results has returned normally.
Plotted == Returned("plot_results") /\ ~PlotRaised(ret)

\* The curve and the bounds are those of attributable and confidence at
\* alpha = 0.05 for each tau of the sweep, and the band starts at p_L.
SweepValues ==
    /\ loc.alpha = PyFloat(1, 20)
    /\ loc.tau = Array(TauArray)
    /\ \A i \in DOMAIN TauArray :
           /\ loc.p.v[i] = attributable(args.x, args.y, TauArray[i])
           /\ Tuple(loc.pL.v[i], loc.pU.v[i])
                  = confidence(args.x, args.y, loc.alpha, TauArray[i])
    /\ loc.band.lower = loc.pL

MakeSegmentsPairs ==
    Returned("make_segments")
        => LET N == Len(args.x)
           IN  /\ Len(ret) = IF N <= 1 THEN 0 ELSE N - 1
               /\ \A i \in DOMAIN ret :
                      ret[i] = << <<args.x[i], args.y[i]>>,
                                  <<args.x[i + 1], args.y[i + 1]>> >>
               /\ \A i \in 1..(Len(ret) - 1) : ret[i][2] = ret[i + 1][1]

\* Three points (0, 1), (1, 0), (0, 0): two segments.
MakeSegmentsPairsWitness ==
    /\ Returned("make_segments")
    /\ args.x = <<0, 1, 0>> /\ args.y = <<1, 0, 0>>
    /\ ret = << << <<0, 1>>, <<1, 0>> >>, << <<1, 0>>, <<0, 0>> >> >>

\* v lies in bin i: Boundaries[i] <= v < Boundaries[i+1]
InBin(v, i) == PyLe(Boundaries[i], v) /\ PyLt(v, Boundaries[i + 1])

\* C18: the ramp has 6 colours over 7 strictly increasing thresholds, as
\* many colours as bins; every intensity v of a collection with
\* 0 <= v < 1000 lies in exactly one bin i, has the index of that bin and
\* the i-th colour, and of two intensities the larger never has the lower
\* bin index.
ColorRamp ==
    Returned("colorline")
        => /\ Len(Colors) = 6
           /\ Len(Boundaries) = Len(Colors) + 1
           /\ \A i \in 1..(Len(Boundaries) - 1) :
                  PyLt(Boundaries[i], Boundaries[i + 1])
           /\ loc.lc.array = loc.z.v
           /\ \A k \in DOMAIN loc.lc.array :
                  LET v == loc.lc.array[k]
                  IN  (PyLe(PyInt(0), v) /\ PyLt(v, PyInt(1000)))
                          => /\ Cardinality({i \in DOMAIN Colors :
                                                 InBin(v, i)}) = 1
                             /\ \A i \in DOMAIN Colors :
                                    InBin(v, i)
                                        => /\ loc.lc.bins[k] = i - 1
                                           /\ loc.lc.colors[k] = Colors[i]
           /\ \A k1, k2 \in DOMAIN loc.lc.array :
                  PyLe(loc.lc.array[k1], loc.lc.array[k2])
                      => loc.lc.bins[k1] <= loc.lc.bins[k2]

\* Intensities 17.4 and 17.5: the first colour and the second.
ColorRampWitness ==
    /\ Returned("colorline")
    /\ args.z = Array(<<PyFloat(87, 5), PyFloat(35, 2)>>)
    /\ loc.lc.bins = <<0, 1>>
    /\ loc.lc.colors = <<"0.75", "#0FABF6">>

\* C19: a call of confidence with y > 0 (x >= 0, tau > 0, 0 < alpha < 1)
\* returns a pair of numbers, and a call returns None if and only if
\* y == 0; no call raises.  In the general case 0 < U <= L < 1 and the
\* rate ratios beta_U and beta_L are positive, and in the x == 0 case the
\* divisor tau * alpha^(1/n) is positive, so no divisor is zero.
ConfidenceTotal ==
    Returned("confidence")
        => /\ ret.t = "None" <=> IsZero(args.y)
           /\ ret.t \in {"None", "tuple"}
           /\ GeneralCase
                  => /\ 0 < loc.U /\ loc.U <= loc.L /\ loc.L < Scale
                     /\ loc.beta_U > 0 /\ loc.beta_L > 0
           /\ (IsZero(args.x) /\ ~IsZero(args.y))
                  => FxMul(FxOf(args.tau),
                           confidence_pow(args.alpha, loc.n)) > 0

\* x = 0.5 with the largest int y of the model: U is small and positive.
ConfidenceTotalWitness ==
    /\ GeneralCase
    /\ args.x = PyFloat(1, 2) /\ args.y = PyInt(MaxCount)
    /\ args.alpha = PyFloat(1, 20)
    /\ ret.t = "tuple"
    /\ 0 < loc.U /\ loc.U < loc.L /\ loc.L < Scale

\* C20: every call of plot_results made through the sliders has
\* 0 <= x <= 100 and 1 <= y <= 200 in whole steps, so y is never 0,
\* confidence returns a pair at every tau, what is unpacked at line 363 is
\* a pair of arrays and never None, and the call is not aborted.
InteractDomain ==
    fn = "plot_results"
        => /\ args.x.t = "float" /\ args.x.d = 1
           /\ args.y.t = "float" /\ args.y.d = 1
           /\ 0 <= args.x.n /\ args.x.n <= 100
           /\ 1 <= args.y.n /\ args.y.n <= 200
           /\ ~confidence_guard(args.y)
           /\ ~PlotRaised(ret)
           /\ pc \in {"L365", "done"}
                  => /\ loc.pL.t = "array" /\ loc.pU.t = "array"
                     /\ \A i \in DOMAIN loc.pL.v :
                            loc.pL.v[i] \in Int /\ loc.pU.v[i] \in Int

\* The sliders at their lower ends, x = 0 and y = 1: the call has returned
\* with the bounds unpacked.
InteractDomainWitness ==
    /\ Plotted
    /\ args.x = PyFloat(SliderX.min, 1) /\ args.y = PyFloat(SliderY.min, 1)
    /\ loc.pL.t = "array"
    /\ Len(loc.pL.v) = Len(TauArray)

\* C21: colorline on a track of N points with N intensities makes N-1
\* segments (none for N = 0) and an intensity array of length N; segment i
\* starts at point i and is drawn in the colour of z[i], and the intensity
\* of the last point colours no segment.  With z omitted the array is N
\* evenly spaced values from 0 to 1 (the single value 0 for N = 1), all in
\* the first colour bin.
ColorlineStartPoint ==
    Returned("colorline")
        => LET N == Len(args.x)
               lc == loc.lc
           IN  /\ (args.z.t = "array" /\ Len(args.z.v) = N)
                      => /\ Len(lc.segments) = IF N = 0 THEN 0 ELSE N - 1
                         /\ lc.array = args.z.v
                         /\ Len(lc.array) = N
                         /\ \A i \in DOMAIN lc.segments :
                                /\ lc.segments[i][1]
                                       = <<args.x[i], args.y[i]>>
                                /\ lc.used[i] = i
                                /\ lc.drawn[i]
                                       = ListedColormap(Colors,
                                             BoundaryNorm(Boundaries,
                                                 Len(Colors), args.z.v[i]))
                         /\ \A i \in DOMAIN lc.segments : lc.used[i] # N
               /\ args.z.t = "None"
                      => /\ Len(lc.array) = N
                         /\ Len(lc.segments) = IF N = 0 THEN 0 ELSE N - 1
                         /\ N >= 1 => lc.array[1] = PyFloat(0, 1)
                         /\ N >= 2 => lc.array[N] = PyFloat(1, 1)
                         /\ \A i \in 1..(N - 1) :
                                PySub(lc.array[i + 1], lc.array[i])
                                    = PyFloat(1, N - 1)
                         /\ \A i \in DOMAIN lc.array :
                                /\ PyLe(PyInt(0), lc.array[i])
                                /\ PyLe(lc.array[i], PyInt(1))
                                /\ lc.bins[i] = 0
                                /\ lc.colors[i] = Colors[1]
                         /\ \A i \in DOMAIN lc.segments :
                                lc.drawn[i] = Colors[1]

\* Three points with intensities 0, 17.5 and 24.5: two segments, drawn in
\* the first and the second colour; the third colour, that of the last
\* point, is not drawn.
ColorlineStartPointWitness ==
    /\ Returned("colorline")
    /\ args.z = Array(<<PyInt(0), PyFloat(35, 2), PyFloat(49, 2)>>)
    /\ Len(loc.lc.segments) = 2
    /\ loc.lc.colors = <<"0.75", "#0FABF6", "#0000FF">>
    /\ loc.lc.drawn = <<"0.75", "#0FABF6">>

\* The subfigure that a call of plot or saveTrackMap adds.
CallSubfigure ==
    <<args.tracks, args.xgrid, args.ygrid, args.title, args.map_kwargs>>

\* The calls on an axes are those of one subfigure: createMap, then each
\* track of the subfigure drawn exactly once and in order, then the title,
\* the graticule and the coastline.
DrawnAsSubfigure(ax, subfigure) ==
    LET n == Len(subfigure[1])
    IN  /\ Len(ax) = n + 7
        /\ ax[1].call = "createMap"
        /\ \A i \in 1..n :
               ax[i + 1] = AxesCall("colorline", <<subfigure[1][i]>>)
        /\ \A i \in DOMAIN ax :
               ax[i].call = "colorline" => i \in 2..(n + 1)
        /\ ax[n + 2] = AxesCall("set_title", <<subfigure[4]>>)
        /\ ax[n + 4].call = "addGraticule"
        /\ ax[n + 5].call = "addCoastline"

\* A figure made by saveTrackMap once plotted: one subfigure, that of the
\* call, drawn once.
OneSubfigure(fig, subfigure) ==
    /\ fig.subfigures = <<subfigure>>
    /\ Len(fig.plots) = 1
    /\ Len(fig.plots[1]) = 1
    /\ DrawnAsSubfigure(fig.plots[1][1], subfigure)

\* After k calls of plot a figure holds k subfigures, and the j-th call
\* has drawn the first j of them in order (between add and plot of a call
\* the list is one longer).  In saveTrackMap the figure is fresh, then
\* holds the subfigure of the call, then is plotted, then saved; a saved
\* figure holds exactly one subfigure.
TrackMapState ==
    /\ \A f \in DOMAIN figures :
           LET fig == figures[f]
               k == Len(fig.plots)
               added == fn = "plot" /\ pc = "L124" /\ args.self = f
           IN  /\ Len(fig.subfigures) = IF added THEN k + 1 ELSE k
               /\ \A j \in 1..k :
                      /\ Len(fig.plots[j]) = j
                      /\ \A i \in 1..j :
                             DrawnAsSubfigure(fig.plots[j][i],
                                              fig.subfigures[i])
    /\ (fn = "plot" /\ pc = "done")
           => LET fig == figures[args.self]
              IN  /\ fig.subfigures[Len(fig.subfigures)] = CallSubfigure
                  /\ executed = <<123, 87, 124>>
    /\ fn = "saveTrackMap"
           => /\ pc = "L123" => loc.fig = SingleTrackMap
              /\ pc = "L124"
                     => /\ loc.fig.subfigures = <<CallSubfigure>>
                        /\ loc.fig.plots = <<>>
              /\ pc \in {"L130", "done"}
                     => OneSubfigure(loc.fig, CallSubfigure)
              /\ pc = "done"
                     => /\ files[args.filename] = <<loc.fig>>
                        /\ executed = <<128, 129, 123, 87, 124, 130>>
    /\ \A name \in DOMAIN files :
           files[name] # <<>>
               => OneSubfigure(files[name][1],
                               files[name][1].subfigures[1])

\* A step removes no figure and no subfigure: the list of a figure
\* changes only in the add of a call of plot on it, which appends the
\* subfigure of the call at the end; its axes change only in the plot
\* that follows, which draws every subfigure of the list again; a file is
\* written only by the last line of saveTrackMap, and a call of
\* saveTrackMap changes no figure of the session.
TrackMapStep ==
    /\ Len(figures') >= Len(figures)
    /\ \A f \in DOMAIN figures :
           /\ figures'[f].subfigures # figures[f].subfigures
                  => /\ fn = "plot" /\ pc = "L123" /\ args.self = f
                     /\ figures'[f].subfigures
                            = Append(figures[f].subfigures, CallSubfigure)
           /\ figures'[f].plots # figures[f].plots
                  => /\ fn = "plot" /\ pc = "L124" /\ args.self = f
                     /\ SubSeq(figures'[f].plots, 1, Len(figures[f].plots))
                            = figures[f].plots
                     /\ Len(figures'[f].plots) = Len(figures[f].plots) + 1
                     /\ Len(figures'[f].plots[Len(figures'[f].plots)])
                            = Len(figures[f].subfigures)
    /\ (fn = "saveTrackMap" /\ pc # "done") => figures' = figures
    /\ files' # files => fn = "saveTrackMap" /\ pc = "L130"

====
